---------------------------- MODULE Spec2Model ----------------------------
(***************************************************************************)
(* A model of huffman.c: the linked-list priority queue, the Huffman tree  *)
(* builder, the code table, the bit writer and reader, the HUF1 container  *)
(* header, and compress_file / decompress_file as step machines.           *)
(*                                                                         *)
(* TLC's integers are 32-bit signed, so a uint32_t or uint64_t of the      *)
(* program is a little-endian sequence of 16-bit limbs (2 limbs, 4 limbs)  *)
(* and the arithmetic on them wraps at the width of the C type.            *)
(*                                                                         *)
(* An input file is a sequence of runs of equal bytes, and a loop over the *)
(* input takes one run per step, so that inputs of 2^32 bytes and more are *)
(* within reach.  Of the output file of compress_file the model keeps the  *)
(* length and the first HeaderLen + MaxKeep bytes; decompress_file is run  *)
(* on the whole file only when all of it is kept.                          *)
(***************************************************************************)
EXTENDS Integers, Sequences, FiniteSets, TLC

VARIABLES
    pc,             \* position of the running program
    infile,         \* the input file of compress_file: a sequence of runs
    inpos,          \* compress_file: index of the next run of infile to read
    freq,           \* uint32_t freq[256]
    original_size,  \* uint64_t original_size
    root,           \* Node *root
    table,          \* Code table[256]
    bw,             \* BitWriter (buf, bits_filled)
    outfile,        \* the first bytes of the output file of compress_file
    outlen,         \* the length of the output file of compress_file
    huf,            \* the container decompress_file reads
    hufpos,         \* decompress_file: number of bytes of huf read so far
    br,             \* BitReader (buf, bits_left)
    cur,            \* decompress_file: Node *cur
    written,        \* decompress_file: uint64_t written
    decoded,        \* the bytes decompress_file has written to its output
    brcalls,        \* decompress_file: calls of br_read_bit so far
    err,            \* the message of die_msg, "" while none
    hufmore,        \* huf holds the first bytes only of the container read
    rbits,          \* the bits br_read_bit has returned with *ok = 1
    queue,          \* a ListNode *pq operated on its own
    popped,         \* the node the last list_pop_front on queue returned
    stamp,          \* the number of list_insert_sorted calls on queue so far
    wbits           \* the bits asked of a BitWriter operated on its own

vars == << pc, infile, inpos, freq, original_size, root, table, bw, outfile,
           outlen, huf, hufpos, br, cur, written, decoded, brcalls, err,
           hufmore, rbits, queue, popped, stamp, wbits >>

\* the variables of the list and of the bit writer operated on their own
unitvars == << queue, popped, stamp, wbits >>

(***************************************************************************)
(* Fixed-width unsigned integers as little-endian sequences of limbs.      *)
(***************************************************************************)
Limb == 2^16

NumSymbols == 256

Symbols == 0 .. (NumSymbols - 1)

\* the uint32_t / uint64_t holding a small natural n (n < 2^31)
U32(n) == << n % Limb, n \div Limb >>

U64(n) == << n % Limb, n \div Limb, 0, 0 >>

ZERO32 == U32(0)

ZERO64 == U64(0)

RECURSIVE AddCarry(_, _, _)
\* a + b + c on limb sequences of one length, the carry out of the top dropped
AddCarry(a, b, c) ==
    IF a = << >> THEN << >>
    ELSE LET s == a[1] + b[1] + c
         IN  << s % Limb >> \o AddCarry(Tail(a), Tail(b), s \div Limb)

\* a + b in the width of a and b (mod 2^32 for uint32_t, mod 2^64 for uint64_t)
AddW(a, b) == AddCarry(a, b, 0)

RECURSIVE LtW(_, _)
\* a < b, unsigned, on limb sequences of one length
LtW(a, b) ==
    IF a = << >> THEN FALSE
    ELSE LET n == Len(a)
         IN  IF a[n] # b[n] THEN a[n] < b[n]
             ELSE LtW(SubSeq(a, 1, n - 1), SubSeq(b, 1, n - 1))

LeW(a, b) == ~ LtW(b, a)

\* (uint32_t) of a uint64_t
Low32(a) == SubSeq(a, 1, 2)


(***************************************************************************)
(* Data structures: tree nodes and the sorted list used as priority queue. *)
(***************************************************************************)
\* the null pointer
NULL == [null |-> TRUE]

make_node(f, is_leaf, symbol, l, r) ==
    [freq |-> f, is_leaf |-> is_leaf, symbol |-> symbol, left |-> l, right |-> r]

RECURSIVE list_advance_lt(_, _, _)
\* the while loop of list_insert_sorted with < for <=
list_advance_lt(head, tree, c) ==
    IF c + 1 <= Len(head) /\ LtW(head[c + 1].freq, tree.freq)
    THEN list_advance_lt(head, tree, c + 1)
    ELSE c

RECURSIVE list_advance(_, _, _)
\* the while loop of list_insert_sorted: the index cur stops at
list_advance(head, tree, c) ==
    IF c + 1 <= Len(head) /\ LeW(head[c + 1].freq, tree.freq)
    THEN list_advance(head, tree, c + 1)
    ELSE c

\* list_insert_sorted with the head test >= for >: a new node goes before a
\* head of equal frequency
list_insert_before_equal(head, tree) ==
    IF head = << >> \/ LeW(tree.freq, head[1].freq)
    THEN << tree >> \o head
    ELSE LET c == list_advance(head, tree, 1)
         IN  SubSeq(head, 1, c) \o << tree >> \o SubSeq(head, c + 1, Len(head))

\* the list (head first) after inserting tree by ascending freq
list_insert_sorted(head, tree) ==
    IF head = << >> \/ LtW(tree.freq, head[1].freq)
    THEN << tree >> \o head
    ELSE LET c == list_advance(head, tree, 1)
         IN  SubSeq(head, 1, c) \o << tree >> \o SubSeq(head, c + 1, Len(head))

\* the node list_pop_front returns, and the list it leaves
list_front(head) == IF head = << >> THEN NULL ELSE head[1]

list_pop_front(head) == IF head = << >> THEN head ELSE Tail(head)

(***************************************************************************)
(* Huffman core.                                                           *)
(***************************************************************************)
\* the least element of a nonempty set of symbols
MinOf(S) == CHOOSE i \in S : \A j \in S : i <= j

RECURSIVE insert_leaves(_, _, _)
\* the first loop of build_huffman_tree: i runs upwards through the symbols,
\* and only those of nonzero frequency (todo, taken in ascending order) act
insert_leaves(f, todo, pq) ==
    IF todo = {} THEN pq
    ELSE LET i == MinOf(todo)
         IN  insert_leaves(f, todo \ {i},
                 list_insert_sorted(pq, make_node(f[i], 1, i, NULL, NULL)))

\* merge_step with the first node popped as both children of the parent
merge_step_dup(pq) ==
    LET a      == list_front(pq)
        pq1    == list_pop_front(pq)
        b      == list_front(pq1)
        pq2    == list_pop_front(pq1)
        parent == make_node(AddW(a.freq, b.freq), 0, 0, a, a)
    IN  list_insert_sorted(pq2, parent)

\* one iteration of the merge loop of build_huffman_tree
merge_step(pq) ==
    LET a      == list_front(pq)
        pq1    == list_pop_front(pq)
        b      == list_front(pq1)
        pq2    == list_pop_front(pq1)
        parent == make_node(AddW(a.freq, b.freq), 0, 0, a, b)
    IN  list_insert_sorted(pq2, parent)

RECURSIVE merge_loop(_)
\* while (pq && pq->next)
merge_loop(pq) == IF Len(pq) >= 2 THEN merge_loop(merge_step(pq)) ELSE pq

\* build_huffman_tree giving the synthetic root of a single symbol the leaf
\* as both children
build_huffman_tree_twin(f) ==
    LET pq      == insert_leaves(f, {i \in Symbols : f[i] # ZERO32}, << >>)
        symbols == Len(pq)
    IN  IF symbols = 0 THEN NULL
        ELSE IF symbols = 1
             THEN LET only == list_front(pq)
                  IN  make_node(only.freq, 0, 0, only, only)
             ELSE list_front(merge_loop(pq))

build_huffman_tree(f) ==
    LET pq      == insert_leaves(f, {i \in Symbols : f[i] # ZERO32}, << >>)
        symbols == Len(pq)
    IN  IF symbols = 0 THEN NULL
        ELSE IF symbols = 1
             THEN LET only == list_front(pq)
                  IN  make_node(only.freq, 0, 0, only, NULL)
             ELSE list_front(merge_loop(pq))

\* (path << 1) | bit on a uint32_t
shl1_or(path, bit) ==
    << (path[1] * 2 + bit) % Limb, (path[2] * 2 + path[1] \div (Limb \div 2)) % Limb >>

RECURSIVE build_codes_dfs(_, _, _, _)
\* the code table after the walk of the subtree n; depth is a uint8_t
build_codes_dfs(n, t, path, depth) ==
    IF n = NULL THEN t
    ELSE IF n.is_leaf = 1
         THEN [t EXCEPT ![n.symbol] =
                  [code |-> IF depth # 0 THEN path ELSE ZERO32,
                   len  |-> IF depth # 0 THEN depth ELSE 1]]
         ELSE LET tl == build_codes_dfs(n.left, t, shl1_or(path, 0),
                                        (depth + 1) % 256)
              IN  build_codes_dfs(n.right, tl, shl1_or(path, 1),
                                  (depth + 1) % 256)

EmptyTable == [i \in Symbols |-> [code |-> ZERO32, len |-> 0]]

build_code_table(r) ==
    IF r # NULL THEN build_codes_dfs(r, EmptyTable, ZERO32, 0) ELSE EmptyTable

(***************************************************************************)
(* Bit I/O.  A writer state is [bw |-> BitWriter, out |-> the bytes its    *)
(* FILE has received]; a reader reads the bytes of a file from a position. *)
(***************************************************************************)
\* what a build makes of code >> i for i >= 32, which C leaves undefined:
\* the shift count taken modulo 32 (x86, AArch64), or a zero result (ARM32)
OversizeShift == {"mask", "zero"}

RECURSIVE code_bit(_, _, _)
\* (code >> i) & 1u for a uint32_t code
code_bit(code, i, sem) ==
    IF i < 16 THEN (code[1] \div 2^i) % 2
    ELSE IF i < 32 THEN (code[2] \div 2^(i - 16)) % 2
    ELSE IF sem = "mask" THEN code_bit(code, i % 32, sem)
    ELSE 0

bw_init == [buf |-> 0, bits_filled |-> 0]

\* bw_write_bit filling the byte from its least significant bit
bw_write_bit_lsb(s, bit) ==
    LET b == s.bw.buf + (IF bit # 0 THEN 2^s.bw.bits_filled ELSE 0)
        n == s.bw.bits_filled + 1
    IN  IF n = 8
        THEN [bw |-> [buf |-> 0, bits_filled |-> 0], out |-> Append(s.out, b)]
        ELSE [bw |-> [buf |-> b, bits_filled |-> n], out |-> s.out]

bw_write_bit(s, bit) ==
    LET b == ((s.bw.buf * 2) % 256) + (IF bit # 0 THEN 1 ELSE 0)
        n == s.bw.bits_filled + 1
    IN  IF n = 8
        THEN [bw |-> [buf |-> 0, bits_filled |-> 0], out |-> Append(s.out, b)]
        ELSE [bw |-> [buf |-> b, bits_filled |-> n], out |-> s.out]

RECURSIVE bw_write_from(_, _, _, _)
\* the loop of bw_write_bits from index i down to 0
bw_write_from(s, code, i, sem) ==
    IF i < 0 THEN s
    ELSE bw_write_from(bw_write_bit(s, code_bit(code, i, sem)), code, i - 1, sem)

bw_write_bits(s, code, len, sem) == bw_write_from(s, code, len - 1, sem)

\* bw_flush without its test bits_filled > 0
bw_flush_always(s) ==
    [bw  |-> [buf |-> 0, bits_filled |-> 0],
     out |-> Append(s.out, (s.bw.buf * 2^(8 - s.bw.bits_filled)) % 256)]

bw_flush(s) ==
    IF s.bw.bits_filled > 0
    THEN [bw  |-> [buf |-> 0, bits_filled |-> 0],
          out |-> Append(s.out, (s.bw.buf * 2^(8 - s.bw.bits_filled)) % 256)]
    ELSE s

br_init == [buf |-> 0, bits_left |-> 0]

\* br_read_bit taking the bits of a byte least significant first
br_read_bit_lsb(r, f, pos) ==
    IF r.bits_left = 0 /\ pos >= Len(f)
    THEN [br |-> r, pos |-> pos, ok |-> 0, bit |-> 0]
    ELSE LET buf  == IF r.bits_left = 0 THEN f[pos + 1] ELSE r.buf
             left == IF r.bits_left = 0 THEN 8 ELSE r.bits_left
         IN  [br  |-> [buf |-> buf \div 2, bits_left |-> left - 1],
              pos |-> IF r.bits_left = 0 THEN pos + 1 ELSE pos,
              ok  |-> 1,
              bit |-> buf % 2]

\* br_read_bit on reader r of file f at position pos (bytes already read):
\* the reader and position it leaves, *ok and the bit returned
br_read_bit(r, f, pos) ==
    IF r.bits_left = 0 /\ pos >= Len(f)
    THEN [br |-> r, pos |-> pos, ok |-> 0, bit |-> 0]
    ELSE LET buf  == IF r.bits_left = 0 THEN f[pos + 1] ELSE r.buf
             left == IF r.bits_left = 0 THEN 8 ELSE r.bits_left
         IN  [br  |-> [buf |-> (buf * 2) % 256, bits_left |-> left - 1],
              pos |-> IF r.bits_left = 0 THEN pos + 1 ELSE pos,
              ok  |-> 1,
              bit |-> (buf \div 128) % 2]

(***************************************************************************)
(* File header.                                                            *)
(***************************************************************************)
MAGIC == << 72, 85, 70, 49 >>      \* 'H', 'U', 'F', '1'

\* byte j (0 the least significant) of an integer held as limbs
byte_of(a, j) == (a[j \div 2 + 1] \div (IF j % 2 = 0 THEN 1 ELSE 256)) % 256

\* the object representation of an integer of n bytes (little-endian target)
bytes_of(a, n) == [k \in 1 .. n |-> byte_of(a, k - 1)]

\* the integer of the width of 2 * n limbs whose object representation is b
limbs_of(b, n) == [k \in 1 .. n |-> b[2 * k - 1] + 256 * b[2 * k]]

\* write_header with the original size written as 4 bytes
write_header_size32(out, size, f) ==
    out \o MAGIC \o bytes_of(size, 4)
        \o [k \in 1 .. (4 * NumSymbols) |-> byte_of(f[(k - 1) \div 4], (k - 1) % 4)]

write_header(out, size, f) ==
    out \o MAGIC \o bytes_of(size, 8)
        \o [k \in 1 .. (4 * NumSymbols) |-> byte_of(f[(k - 1) \div 4], (k - 1) % 4)]

HeaderLen == 4 + 8 + 4 * NumSymbols

\* read_header without the memcmp of the magic
read_header_nomagic(in) ==
    IF Len(in) < 4
    THEN [err |-> "Invalid or truncated file (magic).", pos |-> Len(in)]
    ELSE IF Len(in) < 12
    THEN [err |-> "Truncated header (size).", pos |-> Len(in)]
    ELSE IF Len(in) < HeaderLen
    THEN [err |-> "Truncated header (freq).", pos |-> Len(in)]
    ELSE [err |-> "", pos |-> HeaderLen,
          original_size |-> limbs_of(SubSeq(in, 5, 12), 4),
          freq |-> [i \in Symbols |->
                       limbs_of(SubSeq(in, 13 + 4 * i, 16 + 4 * i), 2)]]

\* read_header on the bytes of file in: the die_msg message ("" when the
\* header is read), the values stored and the number of bytes consumed
read_header(in) ==
    IF Len(in) < 4
    THEN [err |-> "Invalid or truncated file (magic).", pos |-> Len(in)]
    ELSE IF SubSeq(in, 1, 4) # MAGIC
    THEN [err |-> "Not a HUF1 file (bad magic).", pos |-> 4]
    ELSE IF Len(in) < 12
    THEN [err |-> "Truncated header (size).", pos |-> Len(in)]
    ELSE IF Len(in) < HeaderLen
    THEN [err |-> "Truncated header (freq).", pos |-> Len(in)]
    ELSE [err |-> "", pos |-> HeaderLen,
          original_size |-> limbs_of(SubSeq(in, 5, 12), 4),
          freq |-> [i \in Symbols |->
                       limbs_of(SubSeq(in, 13 + 4 * i, 16 + 4 * i), 2)]]

(***************************************************************************)
(* Files.  The input of compress_file is a sequence of runs, a run being   *)
(* count copies of one byte (count a uint64_t); one step of a loop over    *)
(* the input takes one run, that is count iterations on the same byte.     *)
(***************************************************************************)
Run(b, n) == [byte |-> b, count |-> n]

\* the run sequence of a byte sequence, one run per byte
RunsOf(bytes) == [k \in 1 .. Len(bytes) |-> Run(bytes[k], U64(1))]

\* a uint64_t below 2^31, and its value
IsSmall(c) == c[3] = 0 /\ c[4] = 0 /\ c[2] < Limb \div 2

IntOf(c) == c[1] + Limb * c[2]

\* 2^32 as a uint64_t
TwoTo32 == << 0, 0, 1, 0 >>

\* bounds of the inputs
MaxLen == 5

Alphabet == {65, 66, 67}

SmallInputs ==
    { RunsOf(b) : b \in UNION { [1 .. k -> Alphabet] : k \in 0 .. MaxLen } }
    \cup { << Run(65, U64(9)) >>, << Run(66, U64(17)) >> }

\* inputs in which one byte value occurs 2^32 times
BigInputs ==
    { << Run(65, TwoTo32) >>,
      << Run(66, U64(1)), Run(65, TwoTo32) >>,
      << Run(66, U64(9)), Run(65, TwoTo32) >> }

\* the number of payload bytes the model keeps of the output file: outfile is
\* the first HeaderLen + MaxKeep bytes of the file, outlen the file's length
MaxKeep == 4

Keep(bytes) ==
    IF Len(bytes) <= HeaderLen + MaxKeep THEN bytes
    ELSE SubSeq(bytes, 1, HeaderLen + MaxKeep)

RECURSIVE FibSeq(_)
\* the first n Fibonacci numbers 1, 1, 2, 3, 5, ...
FibSeq(n) ==
    IF n <= 2 THEN [k \in 1 .. n |-> 1]
    ELSE LET p == FibSeq(n - 1) IN Append(p, p[n - 1] + p[n - 2])

MaxFibSymbols == 34

\* the input of Fib(1) + ... + Fib(n) bytes in which the byte value i occurs
\* Fib(i+1) times, the values in ascending order
FibInput(n) == LET fs == FibSeq(n) IN [k \in 1 .. n |-> Run(k - 1, U64(fs[k]))]

DeepInputs == { FibInput(MaxFibSymbols) }

Inputs == SmallInputs \cup BigInputs \cup DeepInputs

(***************************************************************************)
(* compress_file                                                           *)
(***************************************************************************)
NoFreq == [i \in Symbols |-> ZERO32]

\* the locals of compress_file and decompress_file before either has run
InitLocals ==
    /\ pc = "c_count"
    /\ inpos = 1
    /\ original_size = ZERO64
    /\ root = NULL
    /\ table = EmptyTable
    /\ bw = bw_init
    /\ outfile = << >>
    /\ outlen = 0
    /\ huf = << >>
    /\ hufpos = 0
    /\ br = br_init
    /\ cur = NULL
    /\ written = ZERO64
    /\ decoded = << >>
    /\ brcalls = 0
    /\ err = ""
    /\ hufmore = FALSE
    /\ rbits = << >>
    /\ queue = << >>
    /\ popped = NULL
    /\ stamp = 0
    /\ wbits = << >>

Init ==
    /\ infile \in Inputs
    /\ freq = NoFreq
    /\ InitLocals

\* 1) Count frequencies: the iterations of the counting loop on one run
CountRun ==
    /\ pc = "c_count"
    /\ inpos <= Len(infile)
    /\ LET r == infile[inpos]
       IN  /\ original_size' = AddW(original_size, r.count)
           /\ freq' = [freq EXCEPT ![r.byte] = AddW(@, Low32(r.count))]
    /\ inpos' = inpos + 1
    /\ UNCHANGED << pc, infile, root, table, bw, outfile, outlen, huf, hufpos, br, cur,
                    written, decoded, brcalls, err >>
    /\ UNCHANGED << unitvars, hufmore, rbits >>

\* 2) Build tree ...
BuildTree ==
    /\ pc = "c_count"
    /\ inpos > Len(infile)
    /\ root' = build_huffman_tree(freq)
    /\ pc' = "c_codes"
    /\ UNCHANGED << infile, inpos, freq, original_size, table, bw, outfile, outlen, huf,
                    hufpos, br, cur, written, decoded, brcalls, err >>
    /\ UNCHANGED << unitvars, hufmore, rbits >>

\* ... and code table
BuildCodeTable ==
    /\ pc = "c_codes"
    /\ table' = build_code_table(root)
    /\ pc' = "c_header"
    /\ UNCHANGED << infile, inpos, freq, original_size, root, bw, outfile, outlen, huf,
                    hufpos, br, cur, written, decoded, brcalls, err >>
    /\ UNCHANGED << unitvars, hufmore, rbits >>

\* 3) Write header; bw_init; rewind the input when there is data to encode
WriteHeader ==
    /\ pc = "c_header"
    /\ outfile' = write_header(outfile, original_size, freq)
    /\ outlen' = Len(outfile')
    /\ bw' = bw_init
    /\ inpos' = IF original_size # ZERO64 THEN 1 ELSE inpos
    /\ pc' = "c_encode"
    /\ UNCHANGED << infile, freq, original_size, root, table, huf, hufpos, br,
                    cur, written, decoded, brcalls, err >>
    /\ UNCHANGED << unitvars, hufmore, rbits >>

RECURSIVE write_copies(_, _, _, _)
\* n iterations of the encoding loop on a byte whose code is c.  The test of
\* bits_filled, which is below 8 between any two calls of bw_write_bit, has
\* TLC evaluate the writer state at every iteration instead of nesting the
\* n iterations unevaluated.
write_copies(s, c, n, sem) ==
    IF n = 0 \/ s.bw.bits_filled >= 8 THEN s
    ELSE write_copies(bw_write_bits(s, c.code, c.len, sem), c, n - 1, sem)

\* copies of a code that fill the kept bytes of the output, whatever the
\* state of the writer and the length of the code
Burst == 8 * (MaxKeep + 1)

\* n iterations of the encoding loop on a byte whose code is c, from writer
\* state s with the output file at length n0: the writer state and the file
\* length after them.  A long run is taken in three parts: the first Burst
\* iterations bit by bit; the middle ones by the number of bits they write,
\* which moves bits_filled and the file length, their bytes lying past the
\* kept bytes; the last 8 bit by bit, which leaves buf as the run leaves it.
encode_run(s, n0, c, n, sem) ==
    IF n <= Burst + 8
    THEN LET t == write_copies(s, c, n, sem)
         IN  [bw |-> t.bw, out |-> t.out, len |-> n0 + (Len(t.out) - Len(s.out))]
    ELSE LET s1   == write_copies(s, c, Burst, sem)
             m    == n - Burst - 8
             bits == s1.bw.bits_filled + (m % 8) * c.len
             s2   == [bw  |-> [buf |-> 0, bits_filled |-> bits % 8],
                      out |-> s1.out]
             s3   == write_copies(s2, c, 8, sem)
         IN  [bw  |-> s3.bw,
              out |-> s1.out,
              len |-> n0 + (Len(s3.out) - Len(s.out))
                         + (m \div 8) * c.len + bits \div 8]

\* 4) Encode data: the iterations of the encoding loop on one run
EncodeRun ==
    /\ pc = "c_encode"
    /\ inpos <= Len(infile)
    /\ LET r == infile[inpos]
           c == table[r.byte]
       IN  IF c.len = 0
           THEN /\ err' = "Internal error: missing code."
                /\ pc' = "c_died"
                /\ UNCHANGED << inpos, bw, outfile, outlen >>
           ELSE /\ IsSmall(r.count)
                /\ \E sem \in OversizeShift :
                      LET s == encode_run([bw |-> bw, out |-> outfile], outlen, c,
                                          IntOf(r.count), sem)
                      IN  bw' = s.bw /\ outfile' = Keep(s.out) /\ outlen' = s.len
                /\ inpos' = inpos + 1
                /\ UNCHANGED << pc, err >>
    /\ UNCHANGED << infile, freq, original_size, root, table, huf, hufpos, br,
                    cur, written, decoded, brcalls >>
    /\ UNCHANGED << unitvars, hufmore, rbits >>

\* bw_flush and the end of compress_file
Flush ==
    /\ pc = "c_encode"
    /\ inpos > Len(infile)
    /\ LET s == bw_flush([bw |-> bw, out |-> outfile])
       IN  /\ bw' = s.bw
           /\ outfile' = Keep(s.out)
           /\ outlen' = outlen + (Len(s.out) - Len(outfile))
    /\ pc' = "c_done"
    /\ UNCHANGED << infile, inpos, freq, original_size, root, table, huf, hufpos,
                    br, cur, written, decoded, brcalls, err >>
    /\ UNCHANGED << unitvars, hufmore, rbits >>

(***************************************************************************)
(* decompress_file                                                         *)
(***************************************************************************)
\* header lengths a truncated container is cut to
HeaderCuts == {0, 3, 4, 11, 12, 13, HeaderLen - 1}

\* a file with every entry of its frequency table set to 0
ZeroTable(f) == [k \in 1 .. Len(f) |-> IF k > 12 /\ k <= HeaderLen THEN 0 ELSE f[k]]

\* values the first payload byte of a changed file is set to: all ones, and
\* a zero bit before seven ones
PayloadBytes == {255, 127}

\* a whole file changed after its magic: the low byte of the original size
\* one up or one down, the frequency table zeroed, the first payload byte
\* set to one of PayloadBytes
Changed(f) ==
    { [f EXCEPT ![5] = (@ + d) % 256] : d \in {1, 255} }
    \cup { ZeroTable(f) }
    \cup { [f EXCEPT ![HeaderLen + 1] = v] : v \in { w \in PayloadBytes : Len(f) > HeaderLen } }

\* the files decompress_file is run on, given the kept bytes f of the file
\* of n bytes compress_file left: the file itself and changed files when all
\* of it is kept, the file cut inside its payload or its header, the kept
\* bytes with one byte of the magic changed
Containers(f, n) ==
    (IF n = Len(f) THEN {f} \cup Changed(f) ELSE {})
    \cup { SubSeq(f, 1, k) : k \in { j \in HeaderLen .. Len(f) : j < n } }
    \cup { SubSeq(f, 1, k) : k \in HeaderCuts }
    \cup { [f EXCEPT ![i] = (@ + 1) % 256] : i \in 1 .. 4 }

\* decompress_file is started on a container; its output file is opened "wb".
\* Of a container longer than its kept bytes the run is followed as far as
\* the kept bytes go.
StartDecompress ==
    /\ pc \in {"c_done", "c_died"}
    /\ \/ huf' \in Containers(outfile, outlen) /\ hufmore' = FALSE
       \/ outlen > Len(outfile) /\ huf' = outfile /\ hufmore' = TRUE
    /\ hufpos' = 0
    /\ decoded' = << >>
    /\ original_size' = ZERO64
    /\ freq' = NoFreq
    /\ root' = NULL
    /\ err' = ""
    /\ pc' = "d_header"
    /\ UNCHANGED << infile, inpos, table, bw, outfile, outlen, br, cur, written, brcalls >>
    /\ UNCHANGED << unitvars, rbits >>

ReadHeader ==
    /\ pc = "d_header"
    /\ LET h == read_header(huf)
       IN  /\ hufpos' = h.pos
           /\ IF h.err # ""
              THEN /\ err' = h.err
                   /\ pc' = "d_died"
                   /\ UNCHANGED << original_size, freq >>
              ELSE /\ original_size' = h.original_size
                   /\ freq' = h.freq
                   /\ pc' = "d_build"
                   /\ UNCHANGED err
    /\ UNCHANGED << infile, inpos, root, table, bw, outfile, outlen, huf, br, cur,
                    written, decoded, brcalls >>
    /\ UNCHANGED << unitvars, hufmore, rbits >>

\* build_huffman_tree, the special cases, br_init and the loop's locals
DecodeSetup ==
    /\ pc = "d_build"
    /\ LET r == build_huffman_tree(freq)
       IN  /\ root' = r
           /\ IF original_size = ZERO64
              THEN /\ pc' = "d_done"
                   /\ UNCHANGED << br, written, cur, err >>
              ELSE IF r = NULL
              THEN /\ err' = "Corrupt file: missing Huffman tree."
                   /\ pc' = "d_died"
                   /\ UNCHANGED << br, written, cur >>
              ELSE /\ br' = br_init
                   /\ written' = ZERO64
                   /\ cur' = r
                   /\ pc' = "d_loop"
                   /\ UNCHANGED err
    /\ UNCHANGED << infile, inpos, freq, original_size, table, bw, outfile, outlen, huf,
                    hufpos, decoded, brcalls >>
    /\ UNCHANGED << unitvars, hufmore, rbits >>

\* while (written < original_size) with <= for <
loop_continues_le(w, size) == LeW(w, size)

\* the condition of the decode loop
loop_continues(w, size) == LtW(w, size)

\* one iteration of the decode loop
DecodeStep ==
    /\ pc = "d_loop"
    /\ loop_continues(written, original_size)
    /\ ~ (cur.is_leaf # 1 /\ hufmore /\ br.bits_left = 0 /\ hufpos >= Len(huf))
    /\ IF cur.is_leaf = 1
       THEN /\ decoded' = Append(decoded, cur.symbol % 256)
            /\ written' = AddW(written, U64(1))
            /\ cur' = root
            /\ UNCHANGED << pc, br, hufpos, brcalls, err, rbits >>
       ELSE LET r    == br_read_bit(br, huf, hufpos)
                next == IF r.bit = 0 THEN cur.left ELSE cur.right
            IN  /\ br' = r.br
                /\ hufpos' = r.pos
                /\ brcalls' = brcalls + 1
                /\ rbits' = IF r.ok = 1 THEN Append(rbits, r.bit) ELSE rbits
                /\ IF r.ok = 0
                   THEN /\ err' = "Unexpected end of encoded data."
                        /\ pc' = "d_died"
                        /\ UNCHANGED cur
                   ELSE /\ cur' = next
                        /\ IF next = NULL
                           THEN /\ err' = "Corrupt Huffman tree or data."
                                /\ pc' = "d_died"
                           ELSE UNCHANGED << pc, err >>
                /\ UNCHANGED << decoded, written >>
    /\ UNCHANGED << infile, inpos, freq, original_size, root, table, bw, outfile, outlen,
                    huf >>
    /\ UNCHANGED << unitvars, hufmore >>

\* the loop condition fails: free_tree, fclose, return
DecodeEnd ==
    /\ pc = "d_loop"
    /\ ~ loop_continues(written, original_size)
    /\ pc' = "d_done"
    /\ UNCHANGED << infile, inpos, freq, original_size, root, table, bw, outfile, outlen,
                    huf, hufpos, br, cur, written, decoded, brcalls, err >>
    /\ UNCHANGED << unitvars, hufmore, rbits >>

Next ==
    \/ CountRun
    \/ BuildTree
    \/ BuildCodeTable
    \/ WriteHeader
    \/ EncodeRun
    \/ Flush
    \/ StartDecompress
    \/ ReadHeader
    \/ DecodeSetup
    \/ DecodeStep
    \/ DecodeEnd

Spec == Init /\ [][Next]_vars

(***************************************************************************)
(* The tree builder and the code table as functions of a frequency table:  *)
(* steps 2 of compress_file from the state in which the counting pass has  *)
(* left a given table.                                                     *)
(***************************************************************************)
MaxFreq == 3

TableAlphabet == {65, 66, 67, 68}

\* 2^31 as a uint32_t
TwoTo31 == << 0, Limb \div 2 >>

TableOf(g) == [i \in Symbols |-> IF i \in DOMAIN g THEN g[i] ELSE ZERO32]

SmallTables ==
    { TableOf(g) : g \in [TableAlphabet -> { U32(n) : n \in 0 .. MaxFreq }] }

\* symbols 0 .. n-1 with the Fibonacci numbers as frequencies
FibTable(n) ==
    LET fs == FibSeq(n)
    IN  [i \in Symbols |-> IF i < n THEN U32(fs[i + 1]) ELSE ZERO32]

FibTables == { FibTable(n) : n \in 1 .. MaxFibSymbols }

InitTable ==
    /\ infile = << >>
    /\ freq \in SmallTables \cup FibTables
    /\ InitLocals

NextTable == BuildTree \/ BuildCodeTable

SpecTable == InitTable /\ [][NextTable]_vars

\* tables of at most four symbols, of small frequencies and of 2^31
InitOpt ==
    /\ infile = << >>
    /\ freq \in { TableOf(g) :
                    g \in [TableAlphabet -> { U32(n) : n \in 0 .. MaxFreq }
                                             \cup {TwoTo31}] }
    /\ InitLocals

SpecOpt == InitOpt /\ [][NextTable]_vars

(***************************************************************************)
(* The sorted list on its own: any sequence of list_insert_sorted and      *)
(* list_pop_front calls on one list.  The node inserted by the k-th call   *)
(* of list_insert_sorted is a leaf whose symbol field is k.                *)
(***************************************************************************)
MaxInserts == 4

PQFreqs == { U32(n) : n \in 1 .. MaxFreq } \cup { U32(Limb) }

InitPQ ==
    /\ infile = << >>
    /\ freq = NoFreq
    /\ InitLocals

PQInsert ==
    /\ stamp < MaxInserts
    /\ \E f \in PQFreqs :
          queue' = list_insert_sorted(queue, make_node(f, 1, stamp, NULL, NULL))
    /\ stamp' = stamp + 1
    /\ UNCHANGED << pc, infile, inpos, freq, original_size, root, table, bw,
                    outfile, outlen, huf, hufpos, br, cur, written, decoded,
                    brcalls, err, hufmore, rbits, popped, wbits >>

PQPop ==
    /\ popped' = list_front(queue)
    /\ queue' = list_pop_front(queue)
    /\ UNCHANGED << pc, infile, inpos, freq, original_size, root, table, bw,
                    outfile, outlen, huf, hufpos, br, cur, written, decoded,
                    brcalls, err, hufmore, rbits, stamp, wbits >>

NextPQ == PQInsert \/ PQPop

SpecPQ == InitPQ /\ [][NextPQ]_vars

(***************************************************************************)
(* The bit writer on its own: any sequence of bw_write_bit, bw_write_bits  *)
(* and bw_flush calls on one BitWriter whose FILE is outfile.  wbits is    *)
(* the bit stream asked for: the bits of the write calls in order, and for *)
(* every bw_flush the zero bits that fill the stream to a whole byte.      *)
(***************************************************************************)
MaxBits == 10

MaxCodeLen == 3

InitBW ==
    /\ infile = << >>
    /\ freq = NoFreq
    /\ InitLocals

\* bw_write_bit(bw, bit) for an int bit
BWWriteBit ==
    /\ Len(wbits) < MaxBits
    /\ \E bit \in {0, 1, 2} :
          LET s == bw_write_bit([bw |-> bw, out |-> outfile], bit)
          IN  /\ bw' = s.bw
              /\ outfile' = s.out
              /\ wbits' = Append(wbits, IF bit = 0 THEN 0 ELSE 1)
    /\ outlen' = Len(outfile')
    /\ UNCHANGED << pc, infile, inpos, freq, original_size, root, table, huf,
                    hufpos, br, cur, written, decoded, brcalls, err, hufmore,
                    rbits, queue, popped, stamp >>

\* bw_write_bits(bw, code, len)
BWWriteBits ==
    /\ \E len \in 0 .. MaxCodeLen, code \in 0 .. (2^MaxCodeLen - 1) :
          /\ Len(wbits) + len <= MaxBits
          /\ LET s == bw_write_bits([bw |-> bw, out |-> outfile], U32(code), len, "mask")
             IN  /\ bw' = s.bw
                 /\ outfile' = s.out
                 /\ wbits' = wbits \o [k \in 1 .. len |-> (code \div 2^(len - k)) % 2]
    /\ outlen' = Len(outfile')
    /\ UNCHANGED << pc, infile, inpos, freq, original_size, root, table, huf,
                    hufpos, br, cur, written, decoded, brcalls, err, hufmore,
                    rbits, queue, popped, stamp >>

\* bw_flush(bw)
BWFlush ==
    /\ LET s == bw_flush([bw |-> bw, out |-> outfile])
       IN  /\ bw' = s.bw
           /\ outfile' = s.out
    /\ wbits' = wbits \o [k \in 1 .. ((8 - (Len(wbits) % 8)) % 8) |-> 0]
    /\ outlen' = Len(outfile')
    /\ UNCHANGED << pc, infile, inpos, freq, original_size, root, table, huf,
                    hufpos, br, cur, written, decoded, brcalls, err, hufmore,
                    rbits, queue, popped, stamp >>

NextBW == BWWriteBit \/ BWWriteBits \/ BWFlush

SpecBW == InitBW /\ [][NextBW]_vars

(***************************************************************************)
(* Properties.                                                             *)
(***************************************************************************)
\* node a comes before node b: lower frequency, or equal and inserted earlier
Before(a, b) == LtW(a.freq, b.freq) \/ (a.freq = b.freq /\ a.symbol < b.symbol)

\* the list is in non-decreasing frequency order, equal frequencies in the
\* order of insertion
QueueSorted == \A i \in 1 .. (Len(queue) - 1) : Before(queue[i], queue[i + 1])

\* a list_pop_front on a nonempty list returns the earliest-inserted node of
\* least frequency and leaves the other nodes in their order
PopsFirst ==
    (queue # << >> /\ stamp' = stamp) =>
        /\ \E k \in 1 .. Len(queue) :
              /\ popped' = queue[k]
              /\ \A j \in (1 .. Len(queue)) \ {k} : Before(queue[k], queue[j])
              /\ queue' = SubSeq(queue, 1, k - 1) \o SubSeq(queue, k + 1, Len(queue))

\* C12: priority-queue order and tie-break.  After any sequence of
\* list_insert_sorted and list_pop_front calls the list is in non-decreasing
\* frequency order with nodes of equal frequency in insertion order, and
\* list_pop_front returns the earliest-inserted node of minimum frequency.
C12_PQOrder == [] QueueSorted /\ [][PopsFirst]_vars

C12_Witness ==
    /\ popped # NULL
    /\ Len(queue) >= 2
    /\ queue[1].freq = popped.freq
    /\ queue[2].freq = popped.freq

\* the length of a file given as runs, as a uint64_t
RECURSIVE TotalSize(_)
TotalSize(runs) ==
    IF runs = << >> THEN ZERO64
    ELSE AddW(runs[1].count, TotalSize(Tail(runs)))

RECURSIVE IsContent(_, _)
\* bytes is exactly the content of the file given as runs
IsContent(bytes, runs) ==
    IF runs = << >> THEN bytes = << >>
    ELSE LET r == runs[1]
         IN  /\ IsSmall(r.count)
             /\ IntOf(r.count) <= Len(bytes)
             /\ \A k \in 1 .. IntOf(r.count) : bytes[k] = r.byte
             /\ IsContent(SubSeq(bytes, IntOf(r.count) + 1, Len(bytes)), Tail(runs))

RECURSIVE IsPrefixOfContent(_, _)
\* bytes is a prefix of the content of the file given as runs
IsPrefixOfContent(bytes, runs) ==
    IF bytes = << >> THEN TRUE
    ELSE /\ runs # << >>
         /\ LET r == runs[1]
            IN  IF LeW(U64(Len(bytes)), r.count)
                THEN \A k \in 1 .. Len(bytes) : bytes[k] = r.byte
                ELSE /\ \A k \in 1 .. IntOf(r.count) : bytes[k] = r.byte
                     /\ IsPrefixOfContent(
                            SubSeq(bytes, IntOf(r.count) + 1, Len(bytes)), Tail(runs))

\* decompress_file has ended, with or without a fatal error
DecompressEnded == pc \in {"d_done", "d_died"}

\* decompress_file runs on the file compress_file left, unchanged
Untampered ==
    /\ pc \in {"d_header", "d_build", "d_loop", "d_done", "d_died"}
    /\ huf = outfile
    /\ outlen = Len(outfile)

\* C1: round trip.  For every input S, decompress_file run on the container
\* compress_file(S) wrote ends without error and has written exactly S.
C1_RoundTrip ==
    (DecompressEnded /\ Untampered) => (pc = "d_done" /\ IsContent(decoded, infile))

\* compress_file has written the header
HeaderWritten == pc \in {"c_encode", "c_done", "c_died"}

RECURSIVE CodeBitsOf(_, _)
\* the number of code bits of the runs of a file under code table t
CodeBitsOf(runs, t) ==
    IF runs = << >> THEN 0
    ELSE IntOf(runs[1].count) * t[runs[1].byte].len + CodeBitsOf(Tail(runs), t)

\* the payload bytes the bit writer has emitted when the runs before inpos
\* are encoded: the full bytes, and after bw_flush the padded last one too
EmittedBytes ==
    LET bits == CodeBitsOf(SubSeq(infile, 1, inpos - 1), table)
    IN  IF pc = "c_done" THEN (bits + 7) \div 8 ELSE bits \div 8

\* the header of the container compress_file has written holds the magic,
\* the original size and the frequency table, and n bytes precede the payload
HeaderIs(n) ==
    /\ pc \in {"c_count", "c_codes", "c_header"} => outfile = << >>
    /\ HeaderWritten =>
          /\ Len(outfile) >= n
          /\ SubSeq(outfile, 1, 4) = MAGIC
          /\ limbs_of(SubSeq(outfile, 5, 12), 4) = original_size
          /\ \A i \in Symbols :
                limbs_of(SubSeq(outfile, 13 + 4 * i, 16 + 4 * i), 2) = freq[i]
          /\ outlen - n = EmittedBytes

\* C2 (as claimed): the header write_header writes (magic, the 8-byte
\* original size, 256 frequency entries of 4 bytes) is 1032 bytes long for
\* every input, so the payload starts 1032 bytes after the start of the file.
C2_Header1032 == HeaderIs(1032)

\* C2 (amended): the header write_header writes (magic, the 8-byte original
\* size, 256 frequency entries of 4 bytes) is 4 + 8 + 1024 = 1036 bytes long
\* for every input, so the payload starts 1036 bytes after the start.
C2_Header1036 == HeaderIs(1036)

C2_Witness == pc = "c_done" /\ Len(outfile) > 1036

\* C4: for the empty input compress_file writes the header only, with
\* original size 0 and an all-zero frequency table; decompress_file on that
\* container ends without error, writes nothing and never calls br_read_bit.
C4_EmptyInput ==
    infile = << >> =>
        /\ pc # "c_died"
        /\ HeaderWritten =>
              /\ outfile = MAGIC \o [k \in 1 .. (8 + 4 * NumSymbols) |-> 0]
              /\ outlen = HeaderLen
        /\ Untampered =>
              /\ pc \notin {"d_loop", "d_died"}
              /\ decoded = << >>
              /\ brcalls = 0
              /\ hufpos <= HeaderLen

C4_Witness == infile = << >> /\ pc = "d_done" /\ huf = outfile

\* the input is N >= 1 copies of one byte value
SingleSymbol ==
    infile # << >> /\ \A k \in 1 .. Len(infile) : infile[k].byte = infile[1].byte

\* C5: for an input of N >= 1 copies of one byte b the frequency table has
\* the one nonzero entry freq[b] = N, the code of b is the 1-bit pattern 0,
\* the payload is ceil(N/8) bytes and decoding yields the N copies of b.
C5_SingleSymbol ==
    SingleSymbol =>
        LET b == infile[1].byte
            N == TotalSize(infile)
            P == outlen - HeaderLen
        IN  /\ pc # "c_died"
            /\ pc \in {"c_codes", "c_header", "c_encode", "c_done"} =>
                  /\ freq[b] \o << 0, 0 >> = N
                  /\ \A i \in Symbols \ {b} : freq[i] = ZERO32
            /\ pc \in {"c_header", "c_encode", "c_done"} =>
                  table[b] = [code |-> ZERO32, len |-> 1]
            /\ pc = "c_done" =>
                  P >= 1 /\ LtW(U64(8 * (P - 1)), N) /\ LeW(N, U64(8 * P))
            /\ (DecompressEnded /\ Untampered) =>
                  (pc = "d_done" /\ IsContent(decoded, infile))

\* decompress_file runs on a container whose first 4 bytes are not "HUF1" or
\* whose header is short
BadHeader ==
    /\ pc \in {"d_header", "d_build", "d_loop", "d_done", "d_died"}
    /\ (Len(huf) < HeaderLen \/ SubSeq(huf, 1, 4) # MAGIC)

\* C6: on a container with a wrong magic or a short header decompress_file
\* aborts in read_header with a format error, before the tree is built and
\* before any byte is written to the output.
C6_HeaderRejection ==
    BadHeader =>
        /\ pc \in {"d_header", "d_died"}
        /\ pc = "d_died" =>
              err \in {"Invalid or truncated file (magic).",
                       "Not a HUF1 file (bad magic).",
                       "Truncated header (size).",
                       "Truncated header (freq)."}
        /\ root = NULL
        /\ decoded = << >>
        /\ brcalls = 0

C6_Witness ==
    /\ pc = "d_died"
    /\ err = "Not a HUF1 file (bad magic)."
    /\ Len(huf) > HeaderLen

\* decompress_file runs on the container compress_file completed for a
\* nonempty input, cut after its header and before its end
PayloadCut ==
    /\ pc \in {"d_header", "d_build", "d_loop", "d_done", "d_died"}
    /\ infile # << >>
    /\ inpos > Len(infile)
    /\ ~ hufmore
    /\ HeaderLen <= Len(huf)
    /\ Len(huf) < outlen
    /\ huf = SubSeq(outfile, 1, Len(huf))

\* C7: truncated payload.  For every nonempty input S, decompress_file on the
\* container of S with one or more trailing payload bytes removed never ends
\* in success, fails only with "Unexpected end of encoded data.", and the
\* bytes it has written to its output are at every moment, and so when it
\* fails, a proper prefix of S.
C7_TruncatedPayload ==
    PayloadCut =>
        /\ pc # "d_done"
        /\ pc = "d_died" => err = "Unexpected end of encoded data."
        /\ IsPrefixOfContent(decoded, infile)
        /\ LtW(U64(Len(decoded)), TotalSize(infile))

\* the bits bw_write_bits emits for code c, first bit first
Pattern(c, sem) == [k \in 1 .. c.len |-> code_bit(c.code, c.len - k, sem)]

IsBitPrefix(p, q) == Len(p) <= Len(q) /\ SubSeq(q, 1, Len(p)) = p

\* C3: prefix-free codes.  For every frequency table, in the code table of
\* build_code_table(build_huffman_tree(freq)) exactly the symbols of nonzero
\* frequency have len > 0, and no assigned code, read as its len-bit pattern,
\* is a bit-prefix of another assigned code.
C3_PrefixFree ==
    pc = "c_header" =>
        /\ \A s \in Symbols : (table[s].len > 0) <=> (freq[s] # ZERO32)
        /\ \A sem \in OversizeShift :
              \A s, t \in { x \in Symbols : table[x].len > 0 } :
                  s # t => ~ IsBitPrefix(Pattern(table[s], sem), Pattern(table[t], sem))

RECURSIVE MulSmall(_, _)
\* n * a for a uint64_t a and a small n
MulSmall(a, n) == IF n = 0 THEN ZERO64 ELSE AddW(a, MulSmall(a, n - 1))

RECURSIVE TotalCodeBits(_, _)
\* T: the sum over the bytes of a file of the code length of the byte
TotalCodeBits(runs, t) ==
    IF runs = << >> THEN ZERO64
    ELSE AddW(MulSmall(runs[1].count, t[runs[1].byte].len),
              TotalCodeBits(Tail(runs), t))

\* the code lengths assigned in table t
AssignedLens(t) == { t[s].len : s \in { x \in Symbols : t[x].len > 0 } }

MinLen(t) == CHOOSE l \in AssignedLens(t) : \A m \in AssignedLens(t) : l <= m

MaxLenOf(t) == CHOOSE l \in AssignedLens(t) : \A m \in AssignedLens(t) : l >= m

\* p = ceil(x / 8) for a uint64_t x and a small p
IsCeilDiv8(p, x) ==
    IF p = 0 THEN x = ZERO64
    ELSE LtW(U64(8 * (p - 1)), x) /\ LeW(x, U64(8 * p))

\* C8: size accounting.  For every nonempty input of length L the payload
\* compress_file writes is ceil(T/8) bytes, T the sum of the code lengths of
\* the input's bytes, and so lies between ceil(L*lmin/8) and ceil(L*lmax/8).
C8_SizeAccounting ==
    (pc \in {"c_done", "c_died"} /\ infile # << >>) =>
        LET P == outlen - HeaderLen
            L == TotalSize(infile)
        IN  /\ IsCeilDiv8(P, TotalCodeBits(infile, table))
            /\ AssignedLens(table) # {} =>
                  /\ LeW(MulSmall(L, MinLen(table)), U64(8 * P))
                  /\ P > 0 => LtW(U64(8 * (P - 1)), MulSmall(L, MaxLenOf(table)))

\* the nonzero entries of a frequency table
Support(f) == { i \in Symbols : f[i] # ZERO32 }

RECURSIVE ShapeOK(_)
\* every node under n is a leaf without children or an internal node with
\* two children
ShapeOK(n) ==
    IF n.is_leaf = 1 THEN n.left = NULL /\ n.right = NULL
    ELSE /\ n.left # NULL
         /\ n.right # NULL
         /\ ShapeOK(n.left)
         /\ ShapeOK(n.right)

RECURSIVE LeafSymbols(_)
\* the symbols of the leaves under n
LeafSymbols(n) ==
    IF n = NULL THEN {}
    ELSE IF n.is_leaf = 1 THEN {n.symbol}
    ELSE LeafSymbols(n.left) \cup LeafSymbols(n.right)

RECURSIVE LeafCount(_)
\* the number of leaves under n
LeafCount(n) ==
    IF n = NULL THEN 0
    ELSE IF n.is_leaf = 1 THEN 1
    ELSE LeafCount(n.left) + LeafCount(n.right)

\* there is exactly one leaf per symbol of nonzero frequency
OneLeafPerSymbol ==
    /\ LeafSymbols(root) = Support(freq)
    /\ LeafCount(root) = Cardinality(Support(freq))

\* C13 (as claimed): tree shape.  In every tree build_huffman_tree returns,
\* for every frequency table, each node is a leaf with no children or an
\* internal node with exactly two non-null children, and there is exactly
\* one leaf per symbol of nonzero frequency.
C13_TreeShape ==
    (pc = "c_codes" /\ root # NULL) => (ShapeOK(root) /\ OneLeafPerSymbol)

\* C13 (amended): tree shape.  For a frequency table with two or more
\* nonzero entries each node of the tree is a leaf with no children or an
\* internal node with two non-null children; for a table with one nonzero
\* entry the root is an internal node whose left child is the leaf of the
\* symbol and whose right child is absent; in both there is exactly one leaf
\* per symbol of nonzero frequency; for the all-zero table there is no tree.
C13_TreeShapeAmended ==
    pc = "c_codes" =>
        LET k == Cardinality(Support(freq))
        IN  /\ k = 0 => root = NULL
            /\ k = 1 =>
                  /\ root # NULL
                  /\ root.is_leaf = 0
                  /\ root.left # NULL
                  /\ root.left.is_leaf = 1
                  /\ root.left.left = NULL /\ root.left.right = NULL
                  /\ root.right = NULL
            /\ k >= 2 => (root # NULL /\ ShapeOK(root))
            /\ OneLeafPerSymbol

C13_Witness ==
    pc = "c_codes" /\ Cardinality(Support(freq)) >= 3 /\ root # NULL /\ ShapeOK(root)

RECURSIVE SumFreq(_, _)
SumFreq(f, S) ==
    IF S = {} THEN ZERO64
    ELSE LET i == MinOf(S) IN AddW(f[i] \o << 0, 0 >>, SumFreq(f, S \ {i}))

\* the least of a nonempty set of uint64_t
MinW(C) == CHOOSE c \in C : \A d \in C : LeW(c, d)

RECURSIVE OptCost(_, _)
\* the least cost sum freq[s] * length(s) of a prefix-free binary code over
\* the symbols S: a code tree over S splits S into the symbols under its
\* two children, and costs the two subtrees plus one bit for every symbol
OptCost(f, S) ==
    IF Cardinality(S) <= 1 THEN ZERO64
    ELSE LET x == MinOf(S)
             splits == { A \in SUBSET S : x \in A /\ A # S }
         IN  AddW(SumFreq(f, S),
                  MinW({ AddW(OptCost(f, A), OptCost(f, S \ A)) : A \in splits }))

RECURSIVE TreeCost(_, _)
\* sum over the leaves under n of the leaf's frequency times its depth
TreeCost(n, depth) ==
    IF n = NULL THEN ZERO64
    ELSE IF n.is_leaf = 1 THEN MulSmall(n.freq \o << 0, 0 >>, depth)
    ELSE AddW(TreeCost(n.left, depth + 1), TreeCost(n.right, depth + 1))

\* C9: optimality.  For every frequency table with at least two nonzero
\* entries the tree of build_huffman_tree gives a code of minimal total cost
\* among the prefix-free binary codes over the symbols of nonzero frequency.
C9_Optimal ==
    (pc = "c_codes" /\ Cardinality(Support(freq)) >= 2) =>
        TreeCost(root, 0) = OptCost(freq, Support(freq))

AAABC == << 65, 65, 65, 66, 67 >>

Leaf(symbol, n) == make_node(U32(n), 1, symbol, NULL, NULL)

\* C10: for the input AAABC the builder merges the leaves B and C first (B
\* left, C right) and then that pair with A; A gets a 1-bit code, B and C
\* 2-bit codes; the payload is the 7 code bits 1110001 and one zero pad bit
\* in one byte; decoding reproduces AAABC.
C10_AAABC ==
    infile = RunsOf(AAABC) =>
        /\ pc \in {"c_codes", "c_header", "c_encode", "c_done"} =>
              root = make_node(U32(5), 0, 0,
                         make_node(U32(2), 0, 0, Leaf(66, 1), Leaf(67, 1)),
                         Leaf(65, 3))
        /\ pc \in {"c_header", "c_encode", "c_done"} =>
              /\ table[65] = [code |-> U32(1), len |-> 1]
              /\ table[66] = [code |-> U32(0), len |-> 2]
              /\ table[67] = [code |-> U32(1), len |-> 2]
        /\ pc = "c_done" =>
              /\ outlen = HeaderLen + 1
              /\ SubSeq(outfile, HeaderLen + 1, Len(outfile)) = << 226 >>
        /\ pc # "c_died"
        /\ (DecompressEnded /\ Untampered) => (pc = "d_done" /\ decoded = AAABC)

C10_Witness == infile = RunsOf(AAABC) /\ pc = "d_done" /\ huf = outfile /\ decoded = AAABC

RECURSIVE TreePaths(_, _)
\* the pairs << symbol, path >> of the leaves under n, path being the edges
\* from the root to the leaf (left = 0, right = 1, first edge first) when
\* path holds the edges from the root to n
TreePaths(n, path) ==
    IF n = NULL THEN {}
    ELSE IF n.is_leaf = 1 THEN { << n.symbol, path >> }
    ELSE TreePaths(n.left, Append(path, 0)) \cup TreePaths(n.right, Append(path, 1))

\* C14: codes equal tree paths.  For every frequency table and every symbol
\* of nonzero frequency the bits bw_write_bits emits for the symbol's table
\* entry are exactly the root-to-leaf path of the symbol's leaf, at every
\* leaf depth the tree builder produces.
C14_CodesArePaths ==
    pc = "c_header" =>
        \A pr \in TreePaths(root, << >>) :
            \A sem \in OversizeShift : Pattern(table[pr[1]], sem) = pr[2]

\* C11: no partial success in decoding.  In every state of decompress_file
\* the number of bytes written is at most the original size of the header,
\* in the decode loop it is the count held in written, and when
\* decompress_file has completed without a fatal error it is the original
\* size exactly.
C11_NoPartialSuccess ==
    pc \in {"d_build", "d_loop", "d_done", "d_died"} =>
        /\ LeW(U64(Len(decoded)), original_size)
        /\ pc = "d_loop" => written = U64(Len(decoded))
        /\ pc = "d_done" => U64(Len(decoded)) = original_size

C11_Witness ==
    pc = "d_done" /\ huf # outfile /\ Len(huf) = outlen /\ Len(decoded) >= 2

\* the counting pass of compress_file is over
Counted == pc \in {"c_codes", "c_header", "c_encode", "c_done", "c_died"}

\* C15: frequency-table sum.  After the counting pass of compress_file the
\* original size is the length of the input and the sum of the 256 frequency
\* entries equals it.
C15_FreqSum ==
    Counted =>
        /\ original_size = TotalSize(infile)
        /\ SumFreq(freq, Support(freq)) = original_size

\* C16: the missing-code failure is unreachable.  Every byte of the input,
\* read again by the second pass of compress_file, has a code of nonzero
\* length, and compress_file never aborts with "Internal error: missing
\* code.".
C16_NoMissingCode ==
    /\ pc # "c_died"
    /\ err # "Internal error: missing code."
    /\ pc \in {"c_encode", "c_done"} =>
          \A k \in 1 .. Len(infile) : table[infile[k].byte].len > 0

RECURSIVE ValueOf(_)
\* the number whose binary digits, most significant first, are bits
ValueOf(bits) ==
    IF bits = << >> THEN 0
    ELSE 2 * ValueOf(SubSeq(bits, 1, Len(bits) - 1)) + bits[Len(bits)]

\* the whole bytes of a bit stream, 8 bits per byte, most significant first
PackedBytes(bits) ==
    [k \in 1 .. (Len(bits) \div 8) |-> ValueOf(SubSeq(bits, 8 * k - 7, 8 * k))]

\* the bits of a stream after its last whole byte
PendingBits(bits) == SubSeq(bits, 8 * (Len(bits) \div 8) + 1, Len(bits))

\* C17: bit writer packing and flush.  After any sequence of bw_write_bit,
\* bw_write_bits and bw_flush calls the bytes emitted are the bits written,
\* packed 8 per byte most significant bit first, every flush with 1..7 bits
\* pending having emitted them in the high positions of one byte with zeros
\* below and every flush with no bit pending having emitted nothing; the
\* bits not yet emitted are in buf, and 0 <= bits_filled <= 7.
C17_BitWriter ==
    /\ outfile = PackedBytes(wbits)
    /\ bw.bits_filled \in 0 .. 7
    /\ bw.bits_filled = Len(PendingBits(wbits))
    /\ bw.buf = ValueOf(PendingBits(wbits))

\* a byte has been emitted and a later write has started a fresh byte
C17_Witness ==
    /\ Len(wbits) = 9
    /\ outfile = << 160 >>
    /\ bw.bits_filled = 1
    /\ bw.buf = 1

\* the bits of a byte sequence, in byte order, most significant bit first
BitsOf(bytes) ==
    [k \in 1 .. (8 * Len(bytes)) |->
        (bytes[(k - 1) \div 8 + 1] \div 2^(7 - ((k - 1) % 8))) % 2]

\* decompress_file has read the header and is at or past its decode loop
PastHeader == pc \in {"d_loop", "d_done", "d_died"} /\ hufpos >= HeaderLen

\* C18: bit reader order and exhaustion.  Over the payload B of n bytes the
\* calls of br_read_bit so far have returned, with ok = 1, the first bits of
\* B in byte order, most significant bit first; while bits of B remain the
\* next call returns the next one with ok = 1; once the 8n bits are read a
\* call returns ok = 0 and leaves the reader as it is, bits_left at 0; and
\* decompress_file has died with "Unexpected end of encoded data." exactly
\* when one call, its last, returned ok = 0.
C18_BitReader ==
    PastHeader =>
        LET all == BitsOf(SubSeq(huf, HeaderLen + 1, Len(huf)))
            k   == Len(rbits)
            r   == br_read_bit(br, huf, hufpos)
        IN  /\ k <= Len(all)
            /\ rbits = SubSeq(all, 1, k)
            /\ k < Len(all) => (r.ok = 1 /\ r.bit = all[k + 1])
            /\ (k = Len(all) /\ ~ hufmore) =>
                  /\ br.bits_left = 0
                  /\ r.ok = 0
                  /\ r.br = br
                  /\ r.pos = hufpos
            /\ IF err = "Unexpected end of encoded data."
               THEN pc = "d_died" /\ k = Len(all) /\ brcalls = k + 1
               ELSE brcalls = k

C18_Witness ==
    /\ PastHeader
    /\ err = "Unexpected end of encoded data."
    /\ Len(rbits) >= 8
    /\ \E i, j \in 1 .. 8 : rbits[i] # rbits[j]

RECURSIVE CodeBitsPrefix(_, _, _)
\* the number of code bits of the first k bytes of a file given as runs
\* under code table t
CodeBitsPrefix(runs, t, k) ==
    IF k = 0 \/ runs = << >> THEN 0
    ELSE LET n == IntOf(runs[1].count)
             l == t[runs[1].byte].len
         IN  IF k <= n THEN k * l
             ELSE n * l + CodeBitsPrefix(Tail(runs), t, k - n)

\* decompress_file runs on the container compress_file completed, unchanged
\* (as far as its kept bytes go when it is longer than them)
Produced ==
    /\ pc \in {"d_header", "d_build", "d_loop", "d_done", "d_died"}
    /\ inpos > Len(infile)
    /\ huf = outfile
    /\ hufmore \/ outlen = Len(outfile)

\* an iteration of the decode loop at a leaf emits one byte, increments
\* written and goes back to the root without reading a bit; an iteration at
\* an internal node reads one bit and emits nothing
StepDiscipline ==
    (pc = "d_loop" /\ loop_continues(written, original_size)) =>
        IF cur.is_leaf = 1
        THEN /\ decoded' = Append(decoded, cur.symbol)
             /\ written' = AddW(written, U64(1))
             /\ cur' = root
             /\ brcalls' = brcalls /\ br' = br /\ hufpos' = hufpos
        ELSE /\ brcalls' = brcalls + 1
             /\ decoded' = decoded
             /\ written' = written

\* the decoder of a container compress_file produced, back at the root with
\* k bytes written, has read the code bits the encoder wrote for the first k
\* bytes of the input, and at its end all the code bits and no padding bit
BitsInStep ==
    Produced =>
        /\ (pc = "d_loop" /\ cur = root) =>
              brcalls = CodeBitsPrefix(infile, table, Len(decoded))
        /\ pc = "d_done" => brcalls = CodeBitsOf(infile, table)
        /\ pc # "d_died"

\* C19: decoder step discipline.  Each iteration of the decode loop either
\* (at a leaf) emits one byte, increments written and resets the position to
\* the root without reading a bit, or (at an internal node) reads one bit
\* and emits nothing; so the decoder of a container compress_file produced
\* consumes, symbol by symbol and in total, exactly the bits the encoder
\* wrote as code bits, and no padding bit as part of a symbol.
C19_StepDiscipline == [] BitsInStep /\ [][StepDiscipline]_vars

\* the frequency table decompress_file read has one nonzero entry
SingleEntry == Cardinality(Support(freq)) = 1

\* C20: missing-child corruption.  The decoder is never positioned at an
\* absent child in its loop: reading, at the synthetic root of a single
\* symbol, the bit 1, whose child is absent, it dies with "Corrupt Huffman
\* tree or data.", the bytes written being those of the symbols decoded
\* before; this failure happens in no other case.  With an original size
\* above 0 and an all-zero frequency table it dies with "Corrupt file:
\* missing Huffman tree." before reading a payload bit or writing a byte.
C20_MissingChild ==
    PastHeader =>
        /\ pc = "d_loop" => cur # NULL
        /\ (original_size # ZERO64 /\ freq = NoFreq) =>
              /\ pc = "d_died"
              /\ err = "Corrupt file: missing Huffman tree."
              /\ brcalls = 0
              /\ decoded = << >>
              /\ hufpos = HeaderLen
        /\ err = "Corrupt Huffman tree or data." => SingleEntry
        /\ SingleEntry =>
              LET b == MinOf(Support(freq))
                  k == Len(rbits)
              IN  /\ \A i \in 1 .. (k - 1) : rbits[i] = 0
                  /\ (k > 0 /\ rbits[k] = 1) <=> (err = "Corrupt Huffman tree or data.")
                  /\ err = "Corrupt Huffman tree or data." =>
                        /\ pc = "d_died"
                        /\ cur = NULL
                        /\ decoded = [i \in 1 .. (k - 1) |-> b]
                        /\ written = U64(k - 1)

C20_Witness ==
    /\ PastHeader
    /\ SingleEntry
    /\ err = "Corrupt Huffman tree or data."
    /\ Len(decoded) = 1

=============================================================================
